---- MODULE Spec2Model ----
(***************************************************************************)
(* autocereal: reflection-driven save/load for cereal.                     *)
(*                                                                         *)
(* The model follows the latest header (src/unnamed/part_000):             *)
(*   - ClassSingleton<Class>: the per-type descriptor (member names,       *)
(*     member count, base count) held in a function-local static;          *)
(*   - saveHelper / saveParents / loadHelper / loadParents: the index      *)
(*     recursion that walks bases first and then the direct members;       *)
(*   - to_json / from_json / to_xml / from_xml and the generic archive     *)
(*     entry points, which own the archive.                                *)
(* The cereal archives are modelled by what the header relies on: an       *)
(* output archive appends one entry per transfer, an input archive hands   *)
(* the entries back in order, shared pointers are tracked by the address   *)
(* of their target, and a read past the end of the input throws.           *)
(***************************************************************************)
EXTENDS Integers, Sequences, FiniteSets, TLC

(***************************************************************************)
(* Program constants.                                                      *)
(***************************************************************************)
MAX_IDENTIFIER_LENGTH == 256
MAX_CLASS_MEMBERS == 256

(***************************************************************************)
(* Bounds of the model.                                                    *)
(***************************************************************************)
MaxVal == 1
MaxRuns == 1
NumThreads == 2

Vals == 0..MaxVal
Threads == 1..NumThreads

(***************************************************************************)
(* The structural provider: the types the model serializes.  A member is   *)
(* [name, kind]; a name is a sequence of character codes (never 0); kind   *)
(* "val" is a by-value member, "ptr" a std::shared_ptr member.             *)
(***************************************************************************)
Id_foo == <<102, 111, 111>>
Id_bar == <<98, 97, 114>>
Id_baz == <<98, 97, 122>>
Id_qux == <<113, 117, 120>>
Id_wobble == <<119, 111, 98, 98, 108, 101>>
Id_left == <<108, 101, 102, 116>>
Id_right == <<114, 105, 103, 104, 116>>
Id_value0 == <<118, 97, 108, 117, 101, 48>>
Id_quux == <<113, 117, 117, 120>>
Id_config == <<99, 111, 110, 102, 105, 103>>

ValMember(n) == [name |-> n, kind |-> "val"]
PtrMember(n) == [name |-> n, kind |-> "ptr"]

\* A member name of length len made of the letter 'm'.
LongId(len) == [j \in 1..len |-> 109]

\* n by-value members m<k>, with distinct two-character names.
ManyMembers(n) == [k \in 1..n |-> ValMember(<<109, 1 + (k % 250)>>)]

SmallTypes ==
    {"Pleh", "Parent", "Child", "Other", "Multi", "GrandChild", "Wibble", "Twin"}
EmptyTypes == {"Empty", "Heir", "Orphan"}
LimitTypes == {"Big254", "Big255", "Big256", "Long255", "Long256"}
TypeIds == SmallTypes \cup EmptyTypes \cup LimitTypes

nonstatic_data_members_of(T) ==
    CASE T = "Pleh" -> <<ValMember(Id_foo), ValMember(Id_bar)>>
      [] T = "Parent" -> <<ValMember(Id_foo)>>
      [] T = "Child" -> <<ValMember(Id_bar)>>
      [] T = "Other" -> <<ValMember(Id_qux)>>
      [] T = "Multi" -> <<ValMember(Id_baz), ValMember(Id_quux)>>
      [] T = "GrandChild" -> <<ValMember(Id_baz)>>
      [] T = "Wibble" -> <<PtrMember(Id_wobble)>>
      [] T = "Twin" -> <<PtrMember(Id_left), PtrMember(Id_right)>>
      [] T = "Empty" -> <<>>
      [] T = "Heir" -> <<>>
      [] T = "Orphan" -> <<ValMember(Id_bar)>>
      [] T = "Big254" -> ManyMembers(MAX_CLASS_MEMBERS - 2)
      [] T = "Big255" -> ManyMembers(MAX_CLASS_MEMBERS - 1)
      [] T = "Big256" -> ManyMembers(MAX_CLASS_MEMBERS)
      [] T = "Long255" -> <<ValMember(LongId(MAX_IDENTIFIER_LENGTH - 1))>>
      [] T = "Long256" -> <<ValMember(LongId(MAX_IDENTIFIER_LENGTH))>>

bases_of(T) ==
    CASE T = "Child" -> <<"Parent">>
      [] T = "Multi" -> <<"Parent", "Other">>
      [] T = "GrandChild" -> <<"Child">>
      [] T = "Heir" -> <<"Parent">>
      [] T = "Orphan" -> <<"Empty">>
      [] OTHER -> <<>>

\* static constexpr _memberCount / _baseCount
memberCount(T) == Len(nonstatic_data_members_of(T))
baseCount(T) == Len(bases_of(T))

\* Mutant: Parent<index>::Type is the first base whatever the index.
ParentType_first(T, index) == bases_of(T)[1]

\* ClassSingleton<Class>::Parent<index>::Type (index is zero-based)
ParentType(T, index) == bases_of(T)[index + 1]

\* std::meta::identifier_of(members[memberIndex]) (memberIndex is zero-based)
identifier_of(T, memberIndex) == nonstatic_data_members_of(T)[memberIndex + 1].name

(***************************************************************************)
(* ClassSingleton<Class>::classMemberNames (consteval).                    *)
(***************************************************************************)
\* Mutant: the asserts compiled out.
classMemberNamesAsserts_off(T) == TRUE

\* The two asserts: a failure is a build-time diagnostic.
classMemberNamesAsserts(T) ==
    /\ memberCount(T) < MAX_CLASS_MEMBERS - 1
    /\ \A i \in 0..(memberCount(T) - 1) :
           Len(identifier_of(T, i)) < MAX_IDENTIFIER_LENGTH

\* The zero-filled table with each identifier copied to the front of its row.
\* Rows and columns past the table are not representable: a copy that would
\* overrun the row is cut at the row's end.
classMemberNames(T) ==
    LET members == nonstatic_data_members_of(T)
        n == Len(members)
    IN [i \in 0..(MAX_CLASS_MEMBERS - 1) |->
           [j \in 0..(MAX_IDENTIFIER_LENGTH - 1) |->
               IF i < n /\ j < Len(members[i + 1].name)
               THEN members[i + 1].name[j + 1]
               ELSE 0]]

(***************************************************************************)
(* ClassSingleton<Class>::ClassSingleton: restringify the table.           *)
(***************************************************************************)
\* strlen(row.data()): the index of the first '\0' of the row (the row's
\* length when it holds none: the model does not read past the row).
FirstNul(row) ==
    LET nuls == {j \in 0..(MAX_IDENTIFIER_LENGTH - 1) : row[j] = 0}
    IN IF nuls = {} THEN MAX_IDENTIFIER_LENGTH
       ELSE CHOOSE j \in nuls : \A k \in 0..(j - 1) : row[k] # 0

\* Mutant: the string is built one character short.
CString_short(row) == [k \in 1..(FirstNul(row) - 1) |-> row[k - 1]]

\* std::string name(row.data()): the characters up to the first '\0'.
CString(row) == [k \in 1..FirstNul(row) |-> row[k - 1]]

\* The idx at which while (memberNames[idx][0] != '\0') stops (the table's
\* length when no row stops it: the model does not read past the table).
LoopEnd(memberNames) ==
    LET stops == {i \in 0..(MAX_CLASS_MEMBERS - 1) : memberNames[i][0] = 0}
    IN IF stops = {} THEN MAX_CLASS_MEMBERS
       ELSE CHOOSE i \in stops : \A k \in 0..(i - 1) : memberNames[k][0] # 0

\* while (memberNames[idx][0] != '\0') { push_back(string(row)); idx++; }
Restringify(memberNames) ==
    [k \in 1..LoopEnd(memberNames) |-> CString(memberNames[k - 1])]

\* _memberNamesStrings of a freshly constructed ClassSingleton<T>
ConstructedNames(T) == Restringify(classMemberNames(T))

(***************************************************************************)
(* Objects.  An object of type T has one slot per direct member of T and   *)
(* of every type in its lineage, keyed <<declaring type, ordinal>>.  A     *)
(* by-value slot holds a value; a shared_ptr slot holds the address of its *)
(* target (0: null), and heap gives the value of each target.              *)
(***************************************************************************)
Addrs == 1..2

RECURSIVE Lineage(_)
Lineage(T) ==
    {T} \cup UNION {Lineage(bases_of(T)[b]) : b \in 1..baseCount(T)}

FieldKeys(T) ==
    UNION {{<<C, i>> : i \in 0..(memberCount(C) - 1)} : C \in Lineage(T)}

KindOf(k) == nonstatic_data_members_of(k[1])[k[2] + 1].kind

\* The members a traversal of T meets, in the order of saveHelper: for each
\* base in turn its own traversal, then the direct members by ordinal.
RECURSIVE Traversal(_)
Traversal(T) ==
    LET Bases[b \in 0..baseCount(T)] ==
            IF b = 0 THEN <<>> ELSE Bases[b - 1] \o Traversal(bases_of(T)[b])
    IN Bases[baseCount(T)] \o [i \in 1..memberCount(T) |-> <<T, i - 1>>]

TraversalNames(T) ==
    [k \in 1..Len(Traversal(T)) |-> identifier_of(Traversal(T)[k][1], Traversal(T)[k][2])]

\* A default-constructed target of a load: the slots hold -1 ("not yet
\* loaded") and no shared target exists.
FreshObject(T) ==
    [type |-> T,
     fields |-> [k \in FieldKeys(T) |-> IF KindOf(k) = "ptr" THEN 0 ELSE -1],
     heap |-> [a \in Addrs |-> -1]]

NoObject == [type |-> "Empty", fields |-> <<>>, heap |-> [a \in Addrs |-> -1]]

\* The objects a caller may hand to save.  Heap cells no pointer refers to
\* stay -1, so that equal objects are equal states.
Objects(T) ==
    {o \in [type : {T},
            fields : [FieldKeys(T) -> (0..MaxVal) \cup Addrs],
            heap : [Addrs -> {-1} \cup Vals]] :
        /\ \A k \in FieldKeys(T) :
              IF KindOf(k) = "ptr" THEN o.fields[k] \in {0} \cup Addrs
                                   ELSE o.fields[k] \in Vals
        /\ \A a \in Addrs :
              (o.heap[a] # -1) <=> (\E k \in FieldKeys(T) : KindOf(k) = "ptr" /\ o.fields[k] = a)}

\* What a reader of the object sees: by-value members as they are, shared
\* members through the pointer (-1 for null).
View(o) ==
    [k \in DOMAIN o.fields |->
        IF KindOf(k) = "ptr"
        THEN (IF o.fields[k] = 0 THEN -1 ELSE o.heap[o.fields[k]])
        ELSE o.fields[k]]

PtrKeys(o) == {k \in DOMAIN o.fields : KindOf(k) = "ptr"}

\* Which shared members refer to one and the same target.
Sharing(o) ==
    {<<k1, k2>> \in PtrKeys(o) \X PtrKeys(o) :
        o.fields[k1] # 0 /\ o.fields[k1] = o.fields[k2]}


(***************************************************************************)
(* State.                                                                  *)
(***************************************************************************)
VARIABLES
    singleton,  \* per type: the function-local static ClassSingleton<T>
    phase,      \* "idle", "saving", "saved", "loading", "done"
    call,       \* the type and backend of the call in progress
    stack,      \* the call stack of the traversal, innermost frame last
    ar,         \* the archive the call owns
    stream,     \* the entries the output archive wrote
    src,        \* the object handed to save
    dst,        \* the object handed to load
    outcome,    \* how the save call and the load call ended
    saveLog,    \* what save did, in order
    loadLog,    \* what load did, in order
    runs,       \* calls made so far
    tpc,        \* per thread: where it is in its first use of a type
    tcls,       \* per thread: the type it uses
    tseen       \* per thread: the member names it read through instance()

vars == <<singleton, phase, call, stack, ar, stream, src, dst, outcome,
          saveLog, loadLog, runs, tpc, tcls, tseen>>

Backends == {"binary", "json", "xml"}

(***************************************************************************)
(* ClassSingleton<Class>::instance and the accessors.                      *)
(***************************************************************************)
\* guard and names are the static object; builds counts the runs of its
\* constructor, uses the calls of instance(), and handed records which
\* construction each returned reference belongs to.
NoSingleton ==
    [guard |-> "uninit", names |-> <<>>, builds |-> 0, uses |-> 0, handed |-> {}]

\* Mutant: a plain "initialised" flag set at the end of the constructor, with
\* no wait for a construction in progress.
StaticInit_unguarded(guard) ==
    CASE guard = "uninit" -> "construct"
      [] guard = "busy" -> "pass"
      [] guard = "done" -> "pass"

\* static ClassSingleton<Class> instance; what a thread reaching the
\* declaration does: the first one constructs, one that arrives during the
\* construction waits for it, a later one passes.
StaticInit(guard) ==
    CASE guard = "uninit" -> "construct"
      [] guard = "busy" -> "wait"
      [] guard = "done" -> "pass"

\* Mutant: the object is not static, every call constructs one.
InstanceConstructs_always(s, T) == TRUE

InstanceConstructs(s, T) == StaticInit(s[T].guard) = "construct"

\* Mutant: the restringify loop runs in instance(), on every call.
Instance_restringify(s, T) ==
    [s EXCEPT ![T] = [guard |-> "done",
                      names |-> @.names \o ConstructedNames(T),
                      builds |-> 1,
                      uses |-> @.uses + 1,
                      handed |-> {1}]]

\* instance() when no other thread is in it: construct on first use, hand
\* out the object.
Instance(s, T) ==
    IF InstanceConstructs(s, T)
    THEN [s EXCEPT ![T] = [guard |-> "done",
                           names |-> ConstructedNames(T),
                           builds |-> @.builds + 1,
                           uses |-> @.uses + 1,
                           handed |-> @.handed \cup {@.builds + 1}]]
    ELSE [s EXCEPT ![T].handed = @ \cup {s[T].builds}, ![T].uses = @ + 1]

\* Mutant: the name is always the first of the list.
memberAtIndex_first(s, T, index) == s[T].names[1]

memberAtIndex(s, T, index) == s[T].names[index + 1]
getMemberNames(s, T) == s[T].names

(***************************************************************************)
(* What the build accepts.  The asserts of classMemberNames run in a       *)
(* consteval function and those of the helpers are static_asserts: a type  *)
(* that fails one is rejected when the call is compiled, before anything   *)
(* runs.                                                                   *)
(***************************************************************************)
\* Mutant: saveHelper without its static_asserts.
saveHelperAsserts_off(C, index) == TRUE

saveHelperAsserts(C, index) == memberCount(C) > 0 /\ index < memberCount(C)
loadHelperAsserts(C, index) == memberCount(C) > 0 /\ index < memberCount(C)

\* Mutant: the helpers are instantiated without their static_asserts.
HelperAsserts_off(dir, C, index) == TRUE

HelperAsserts(dir, C, index) ==
    IF dir = "save" THEN saveHelperAsserts(C, index) ELSE loadHelperAsserts(C, index)

RECURSIVE HelperInstantiates(_, _, _), ParentsInstantiates(_, _, _)
\* saveHelper<Archive, C, n, index> / loadHelper<Archive, C, n, index>
HelperInstantiates(dir, C, index) ==
    /\ classMemberNamesAsserts(C)
    /\ HelperAsserts(dir, C, index)
    /\ (index = 0 /\ baseCount(C) > 0) => ParentsInstantiates(dir, C, 0)
    /\ (index + 1 < memberCount(C)) => HelperInstantiates(dir, C, index + 1)

\* saveParents<Archive, C, index> / loadParents<Archive, C, index>
ParentsInstantiates(dir, C, index) ==
    /\ classMemberNamesAsserts(C)
    /\ classMemberNamesAsserts(ParentType(C, index))
    /\ HelperInstantiates(dir, ParentType(C, index), 0)
    /\ (index + 1 < baseCount(C)) => ParentsInstantiates(dir, C, index + 1)

\* cereal::save<Archive, T> / cereal::load<Archive, T>
Instantiates(dir, T) ==
    classMemberNamesAsserts(T) /\ HelperInstantiates(dir, T, 0)

\* if constexpr (index == 0) if constexpr (baseCount() > 0): the bases are
\* traversed on the way to member 0 and nowhere else.
\* Mutant: saveHelper never calls saveParents.
saveHelper_parents_never(C, index) == FALSE

saveHelper_parents(C, index) == index = 0 /\ baseCount(C) > 0

\* if constexpr ((index + 1) < classInstance.memberCount()): the helper
\* instantiates and calls itself for the next ordinal while there is one.
\* Mutant: saveHelper stops after its own member.
saveHelper_more_never(C, index) == FALSE

saveHelper_more(C, index) == index + 1 < memberCount(C)

\* Mutant: loadHelper stops after its own member.
loadHelper_more_never(C, index) == FALSE

loadHelper_more(C, index) == index + 1 < memberCount(C)

\* Mutant: the helper instantiates itself again for the ordinal it stands at.
NextIndex_same(index) == index

\* saveHelper<Archive, Class, n, index + 1> and the like: the ordinal, or the
\* base index, of the recursive call is the successor of the caller's.
NextIndex(index) == index + 1

\* Mutant: loadHelper never calls loadParents.
loadHelper_parents_never(C, index) == FALSE

loadHelper_parents(C, index) == index = 0 /\ baseCount(C) > 0

(***************************************************************************)
(* Field access.                                                           *)
(***************************************************************************)
\* Mutant: the copy of a shared_ptr member is a deep copy, with a target of
\* its own.
member_ref_const_clone(o, C, index) ==
    IF KindOf(<<C, index>>) = "ptr"
    THEN [addr |-> IF o.fields[<<C, index>>] = 0 THEN 0 ELSE index + 3,
          val |-> IF o.fields[<<C, index>>] = 0 THEN 0
                  ELSE o.heap[o.fields[<<C, index>>]]]
    ELSE [addr |-> 0, val |-> o.fields[<<C, index>>]]

\* member_ref_const: returns the member BY VALUE.  The copy of a by-value
\* member is its value; the copy of a shared_ptr shares the target, so it
\* carries the target's address and the value seen through it.
member_ref_const(o, C, index) ==
    IF KindOf(<<C, index>>) = "ptr"
    THEN [addr |-> o.fields[<<C, index>>],
          val |-> IF o.fields[<<C, index>>] = 0 THEN 0
                  ELSE o.heap[o.fields[<<C, index>>]]]
    ELSE [addr |-> 0, val |-> o.fields[<<C, index>>]]

\* Mutant: the reference is always to member 0.
member_ref_first(o, C, index, v) == [o EXCEPT !.fields[<<C, 0>>] = v]

\* member_ref: a reference to the member; writing through it changes the
\* object in place.
member_ref(o, C, index, v) == [o EXCEPT !.fields[<<C, index>>] = v]

(***************************************************************************)
(* The archives, as far as the header relies on them.                      *)
(***************************************************************************)
IsText(backend) == backend \in {"json", "xml"}

RegAddrs == Addrs \cup {a + 2 : a \in Addrs}

NoArchive == [live |-> FALSE, dir |-> "none", reg |-> [a \in RegAddrs |-> 0],
              nextId |-> 1, pos |-> 1]

OutputArchive == [NoArchive EXCEPT !.live = TRUE, !.dir = "save"]
InputArchive == [NoArchive EXCEPT !.live = TRUE, !.dir = "load"]

\* Mutant: the archive is allocated with new and never deleted.
ArchiveScopeExit_leak(a) == a

\* The archive is a local variable of the call (cereal::JSONOutputArchive
\* ar(stream);): control leaving the body, by return or by an exception
\* passing through, destroys it.
ArchiveScopeExit(a) == NoArchive

Entry(ev, name, kind, v, id, fresh) ==
    [ev |-> ev, name |-> name, kind |-> kind, v |-> v, id |-> id, fresh |-> fresh]

\* ar(cereal::make_nvp(name, value)) on an output archive: the entry written
\* and the archive afterwards.  A text archive keeps the name, the binary one
\* drops it.  A shared_ptr is written in full the first time its target is
\* seen and as a back-reference afterwards.
SaveTransfer(a, backend, name, kind, ref) ==
    LET nm == IF IsText(backend) THEN name ELSE <<>> IN
    IF kind # "ptr"
    THEN [ar |-> a, entry |-> Entry("item", nm, "val", ref.val, 0, FALSE)]
    ELSE IF ref.addr = 0
    THEN [ar |-> a, entry |-> Entry("item", nm, "ptr", 0, 0, FALSE)]
    ELSE IF a.reg[ref.addr] # 0
    THEN [ar |-> a, entry |-> Entry("item", nm, "ptr", 0, a.reg[ref.addr], FALSE)]
    ELSE [ar |-> [a EXCEPT !.reg[ref.addr] = a.nextId, !.nextId = @ + 1],
          entry |-> Entry("item", nm, "ptr", ref.val, a.nextId, TRUE)]

\* Whether ar(ref) on an input archive can be served by the next entry.
LoadServes(a, input, kind) ==
    /\ a.pos <= Len(input)
    /\ input[a.pos].ev = "item"
    /\ input[a.pos].kind = kind
    /\ (kind = "ptr" /\ input[a.pos].id # 0 /\ ~input[a.pos].fresh)
           => a.reg[input[a.pos].id] # 0

\* Mutant: the entry is looked up by the member's identifier, and taken by
\* position only when no entry bears it.
LoadTransfer_byname(a, input, kind, o, C, index) ==
    LET named == {p \in 1..Len(input) :
                     input[p].ev = "item" /\ input[p].name = identifier_of(C, index)}
        e == IF named = {} THEN input[a.pos]
             ELSE input[CHOOSE p \in named : \A q \in named : p <= q]
    IN [ar |-> [a EXCEPT !.pos = @ + 1], obj |-> member_ref(o, C, index, e.v)]

\* ar(ref) on an input archive: the next entry, whatever its name, goes into
\* the member.  A shared_ptr read in full gets a new target; a back-reference
\* is rewired to the target read before.
LoadTransfer(a, input, kind, o, C, index) ==
    LET e == input[a.pos]
        free == CHOOSE x \in Addrs : o.heap[x] = -1 /\ \A y \in Addrs : o.heap[y] = -1 => x <= y
    IN
    IF kind # "ptr"
    THEN [ar |-> [a EXCEPT !.pos = @ + 1], obj |-> member_ref(o, C, index, e.v)]
    ELSE IF e.id = 0
    THEN [ar |-> [a EXCEPT !.pos = @ + 1], obj |-> member_ref(o, C, index, 0)]
    ELSE IF e.fresh
    THEN [ar |-> [a EXCEPT !.pos = @ + 1, !.reg[e.id] = free],
          obj |-> [member_ref(o, C, index, free) EXCEPT !.heap[free] = e.v]]
    ELSE [ar |-> [a EXCEPT !.pos = @ + 1],
          obj |-> member_ref(o, C, index, a.reg[e.id])]


(***************************************************************************)
(* The call stack.                                                         *)
(***************************************************************************)
Frame(fn, C, index, pc) == [fn |-> fn, cls |-> C, index |-> index, pc |-> pc]

Top == stack[Len(stack)]
Popped == SubSeq(stack, 1, Len(stack) - 1)
\* The running frame moves to pc and calls f.
Calling(pc, f) == Append([stack EXCEPT ![Len(stack)].pc = pc], f)
At(dir, fn, pc) ==
    /\ phase = dir
    /\ stack # <<>>
    /\ Top.fn = fn
    /\ Top.pc = pc

\* form: "stream" for to_json(obj, stream) and the like, "string" for the
\* overloads that return or take a std::string.
NoCall == [type |-> "Empty", backend |-> "binary", form |-> "stream"]
\* text: the std::string a string form returned or was handed.
NoOutcome == [save |-> "none", load |-> "none", text |-> <<>>]

\* The overloads a backend has: the string forms exist for json and xml.
Forms(backend) == IF IsText(backend) THEN {"stream", "string"} ELSE {"stream"}

\* Mutant: the string is taken while the archive is still open.
StringResult_early(form, buf) ==
    IF form = "string" THEN SubSeq(buf, 1, Len(buf) - 1) ELSE <<>>

\* std::string to_json(const T&) / to_xml(const T&): return stream.str(), the
\* whole buffer of the local stream, after to_json(obj, stream) has returned.
StringResult(form, buf) == IF form = "string" THEN buf ELSE <<>>

\* What is left of the stream after the call: the local stream of a string
\* form is gone, the caller's stream holds what was written.
StreamAfterSave(form, buf) == IF form = "string" THEN <<>> ELSE buf

\* The stream the input archive reads: std::stringstream stream(json) for a
\* string form, the caller's stream otherwise.
StreamForLoad(form, buf, text) == IF form = "string" THEN text ELSE buf

\* The types handed to save and load, and the types whose descriptor is only
\* looked up.
TraversedTypes == SmallTypes \cup EmptyTypes \cup {"Long255", "Long256"}

\* The types an object bound to a T& may really have: T and what derives
\* from it.
RuntimeTypes(T) == {D \in TraversedTypes : T \in Lineage(D)}

\* Mutant: the traversal goes by the type the object really has.
SerializedClass_dynamic(T, o) == o.type

\* template <typename Archive, typename Class> save(Archive&, const Class&):
\* Class is deduced from the type of the expression handed to the archive,
\* not from the object behind the reference.
SerializedClass(T, o) == T
LookedUpTypes == LimitTypes \cup {"Pleh", "Empty"}

Init ==
    /\ singleton = [T \in TypeIds |-> NoSingleton]
    /\ phase = "idle"
    /\ call = NoCall
    /\ stack = <<>>
    /\ ar = NoArchive
    /\ stream = <<>>
    /\ src = NoObject
    /\ dst = NoObject
    /\ outcome = NoOutcome
    /\ saveLog = <<>>
    /\ loadLog = <<>>
    /\ runs = 0
    /\ tpc = [t \in Threads |-> "off"]
    /\ tcls = [t \in Threads |-> "Empty"]
    /\ tseen = [t \in Threads |-> <<>>]

threadVars == <<tpc, tcls, tseen>>

(***************************************************************************)
(* A direct look-up: ClassSingleton<T>::instance().getMemberNames().       *)
(***************************************************************************)
Lookup(T) ==
    /\ phase = "idle"
    /\ runs < MaxRuns
    /\ runs' = runs + 1
    /\ IF classMemberNamesAsserts(T)
       THEN /\ singleton' = Instance(singleton, T)
            /\ outcome' = [NoOutcome EXCEPT !.load = "looked up"]
       ELSE /\ singleton' = singleton
            /\ outcome' = [NoOutcome EXCEPT !.load = "rejected"]
    /\ call' = [NoCall EXCEPT !.type = T]
    /\ phase' = "done"
    /\ UNCHANGED <<stack, ar, stream, src, dst, saveLog, loadLog, threadVars>>

(***************************************************************************)
(* Saving: to_json / to_xml / to_output_archive with its own archive.      *)
(***************************************************************************)
\* The archive is constructed and ar(obj) enters cereal::save; a text
\* archive opens the node of the root object first.  obj is a const T& to an
\* object o of type T or of a type derived from T.
BeginSave(T, o, backend, form) ==
    /\ phase = "idle"
    /\ runs < MaxRuns
    /\ runs' = runs + 1
    /\ call' = [type |-> T, backend |-> backend, form |-> form]
    /\ saveLog' = <<>>
    /\ loadLog' = <<>>
    /\ dst' = NoObject
    /\ IF Instantiates("save", T)
       THEN /\ phase' = "saving"
            /\ src' = o
            /\ ar' = OutputArchive
            /\ stream' = IF IsText(backend)
                         THEN <<Entry("start", Id_value0, "val", 0, 0, FALSE)>>
                         ELSE <<>>
            /\ stack' = <<Frame("save", SerializedClass(T, o), 0, "call")>>
            /\ outcome' = NoOutcome
       ELSE /\ phase' = "done"
            /\ src' = NoObject
            /\ ar' = NoArchive
            /\ stream' = <<>>
            /\ stack' = <<>>
            /\ outcome' = [NoOutcome EXCEPT !.save = "rejected"]
    /\ UNCHANGED <<singleton, threadVars>>

\* cereal::save: look the descriptor up and start at member 0.
cereal_save ==
    /\ At("saving", "save", "call")
    /\ singleton' = Instance(singleton, Top.cls)
    /\ stack' = Calling("ret", Frame("saveHelper", Top.cls, 0, "enter"))
    /\ UNCHANGED <<phase, call, ar, stream, src, dst, outcome, saveLog, loadLog,
                   runs, threadVars>>

\* saveHelper, up to the member: at index 0 of a type with bases, the bases
\* go first.
saveHelper_enter ==
    /\ At("saving", "saveHelper", "enter")
    /\ singleton' = Instance(singleton, Top.cls)
    /\ stack' = IF saveHelper_parents(Top.cls, Top.index)
                THEN Calling("member", Frame("saveParents", Top.cls, 0, "enter"))
                ELSE [stack EXCEPT ![Len(stack)].pc = "member"]
    /\ UNCHANGED <<phase, call, ar, stream, src, dst, outcome, saveLog, loadLog,
                   runs, threadVars>>

\* saveHelper: ar(make_nvp(memberAtIndex(index), constRef)).
saveHelper_member ==
    /\ At("saving", "saveHelper", "member")
    /\ LET C == Top.cls
           i == Top.index
           r == SaveTransfer(ar, call.backend, memberAtIndex(singleton, C, i),
                             KindOf(<<C, i>>), member_ref_const(src, C, i))
       IN /\ ar' = r.ar
          /\ stream' = Append(stream, r.entry)
          /\ saveLog' = Append(saveLog, <<"member", C, i>>)
    /\ stack' = [stack EXCEPT ![Len(stack)].pc = "next"]
    /\ UNCHANGED <<singleton, phase, call, src, dst, outcome, loadLog, runs, threadVars>>

\* saveHelper: recurse to the next index, or return after the last member.
saveHelper_next ==
    /\ At("saving", "saveHelper", "next")
    /\ stack' = IF saveHelper_more(Top.cls, Top.index)
                THEN Calling("ret", Frame("saveHelper", Top.cls, NextIndex(Top.index), "enter"))
                ELSE Popped
    /\ UNCHANGED <<singleton, phase, call, ar, stream, src, dst, outcome, saveLog,
                   loadLog, runs, threadVars>>

\* Mutant: the base is handed to the archive as an object of its own
\* (ar(cereal::base_class<Parent>(&instance))), which opens a node for it.
saveParents_call_nested(out, backend) ==
    IF IsText(backend) THEN Append(out, Entry("start", <<>>, "val", 0, 0, FALSE))
    ELSE out

\* saveHelper<Archive, Parent, n>(ar, baseInstance): saveParents calls the
\* helper of the base itself; the archive is not told that another object
\* begins, so nothing is written for the base as such.
saveParents_call(out, backend) == out

\* saveParents: look up both descriptors and save the index-th base from its
\* member 0.
saveParents_enter ==
    /\ At("saving", "saveParents", "enter")
    /\ singleton' = Instance(Instance(singleton, Top.cls), ParentType(Top.cls, Top.index))
    /\ saveLog' = Append(saveLog, <<"base", Top.cls, Top.index>>)
    /\ stream' = saveParents_call(stream, call.backend)
    /\ stack' = Calling("next", Frame("saveHelper", ParentType(Top.cls, Top.index), 0, "enter"))
    /\ UNCHANGED <<phase, call, ar, src, dst, outcome, loadLog, runs, threadVars>>

\* saveParents: recurse to the next base, or return after the last.
saveParents_next ==
    /\ At("saving", "saveParents", "next")
    /\ stack' = IF Top.index + 1 < baseCount(Top.cls)
                THEN Calling("ret", Frame("saveParents", Top.cls, NextIndex(Top.index), "enter"))
                ELSE Popped
    /\ UNCHANGED <<singleton, phase, call, ar, stream, src, dst, outcome, saveLog,
                   loadLog, runs, threadVars>>

\* A frame whose callee has returned and that has nothing left to do returns.
Return ==
    /\ phase \in {"saving", "loading"}
    /\ stack # <<>>
    /\ Top.pc = "ret"
    /\ stack' = Popped
    /\ UNCHANGED <<singleton, phase, call, ar, stream, src, dst, outcome, saveLog,
                   loadLog, runs, threadVars>>

\* ar(obj) is over: the archive goes out of scope, and a text archive closes
\* the root node as it is destroyed; the call returns (a string form with
\* the text).
EndSave ==
    /\ phase = "saving"
    /\ stack = <<>>
    /\ LET written == IF IsText(call.backend)
                      THEN Append(stream, Entry("end", <<>>, "val", 0, 0, FALSE))
                      ELSE stream
       IN /\ stream' = StreamAfterSave(call.form, written)
          /\ outcome' = [outcome EXCEPT !.save = "returned",
                                        !.text = StringResult(call.form, written)]
    /\ ar' = ArchiveScopeExit(ar)
    /\ phase' = "saved"
    /\ UNCHANGED <<singleton, call, stack, src, dst, saveLog, loadLog, runs, threadVars>>


(***************************************************************************)
(* Loading: from_json / from_xml / from_input_archive with its own archive.*)
(***************************************************************************)
\* Mutant: the call catches the archive's exception and returns.
from_exit_swallow(backend, threw) == "returned"

\* How a from_* call ends.  None of them has a handler: an exception thrown
\* under ar(obj) leaves the call as that exception.
from_exit(backend, threw) == IF threw THEN "threw" ELSE "returned"

\* The input archive is constructed over what save wrote and ar(obj) enters
\* cereal::load; a text archive enters the node of the root object first.
BeginLoad ==
    /\ phase = "saved"
    /\ dst' = FreshObject(src.type)
    /\ IF Instantiates("load", call.type)
       THEN /\ phase' = "loading"
            /\ ar' = [InputArchive EXCEPT !.pos = IF IsText(call.backend) THEN 2 ELSE 1]
            /\ stack' = <<Frame("load", SerializedClass(call.type, dst'), 0, "call")>>
            /\ outcome' = outcome
       ELSE /\ phase' = "done"
            /\ ar' = NoArchive
            /\ stack' = <<>>
            /\ outcome' = [outcome EXCEPT !.load = "rejected"]
    /\ stream' = StreamForLoad(call.form, stream, outcome.text)
    /\ UNCHANGED <<singleton, call, src, saveLog, loadLog, runs, threadVars>>

\* A text archive parses the whole document in its constructor: malformed
\* text throws there, before any member is read.
BeginLoadThrows ==
    /\ phase = "saved"
    /\ IsText(call.backend)
    /\ Instantiates("load", call.type)
    /\ dst' = FreshObject(src.type)
    /\ phase' = "done"
    /\ ar' = NoArchive
    /\ stack' = <<>>
    /\ outcome' = [outcome EXCEPT !.load = from_exit(call.backend, TRUE)]
    /\ loadLog' = <<<<"parse", call.type, 0>>>>
    /\ stream' = StreamForLoad(call.form, stream, outcome.text)
    /\ UNCHANGED <<singleton, call, src, saveLog, runs, threadVars>>

\* The documents a caller may write by hand for a T: the outer node bears a
\* name of the caller's, and the entries bear the identifiers of the members
\* in the reverse of the order save writes them in, with any values.
HandCodedTypes == {"Pleh", "Child", "Orphan"}
HandDocs(T) ==
    LET n == Len(Traversal(T))
    IN {<<Entry("start", Id_config, "val", 0, 0, FALSE)>>
            \o [k \in 1..n |->
                   Entry("item", TraversalNames(T)[n + 1 - k], "val", vs[k], 0, FALSE)]
            \o <<Entry("end", <<>>, "val", 0, 0, FALSE)>> : vs \in [1..n -> Vals]}

\* from_json(obj, text) / from_xml(obj, text) on a document written by hand:
\* no save came before.
HandCoded(T, doc, backend) ==
    /\ phase = "idle"
    /\ runs < MaxRuns
    /\ runs' = runs + 1
    /\ IsText(backend)
    /\ call' = [type |-> T, backend |-> backend, form |-> "string"]
    /\ src' = NoObject
    /\ dst' = FreshObject(T)
    /\ saveLog' = <<>>
    /\ loadLog' = <<>>
    /\ IF Instantiates("load", T)
       THEN /\ outcome' = [NoOutcome EXCEPT !.text = doc]
            /\ stream' = StreamForLoad("string", <<>>, doc)
            /\ phase' = "loading"
            /\ ar' = [InputArchive EXCEPT !.pos = 2]
            /\ stack' = <<Frame("load", SerializedClass(T, dst'), 0, "call")>>
       ELSE /\ outcome' = [NoOutcome EXCEPT !.load = "rejected"]
            /\ stream' = <<>>
            /\ phase' = "done"
            /\ ar' = NoArchive
            /\ stack' = <<>>
    /\ UNCHANGED <<singleton, threadVars>>

\* cereal::load: look the descriptor up and start at member 0.
cereal_load ==
    /\ At("loading", "load", "call")
    /\ singleton' = Instance(singleton, Top.cls)
    /\ stack' = Calling("ret", Frame("loadHelper", Top.cls, 0, "enter"))
    /\ UNCHANGED <<phase, call, ar, stream, src, dst, outcome, saveLog, loadLog,
                   runs, threadVars>>

\* loadHelper, up to the member: at index 0 of a type with bases, the bases
\* go first.
loadHelper_enter ==
    /\ At("loading", "loadHelper", "enter")
    /\ singleton' = Instance(singleton, Top.cls)
    /\ stack' = IF loadHelper_parents(Top.cls, Top.index)
                THEN Calling("member", Frame("loadParents", Top.cls, 0, "enter"))
                ELSE [stack EXCEPT ![Len(stack)].pc = "member"]
    /\ UNCHANGED <<phase, call, ar, stream, src, dst, outcome, saveLog, loadLog,
                   runs, threadVars>>

\* loadHelper: ar(ref) reads the next entry into the member.
loadHelper_member ==
    /\ At("loading", "loadHelper", "member")
    /\ LoadServes(ar, stream, KindOf(<<Top.cls, Top.index>>))
    /\ LET r == LoadTransfer(ar, stream, KindOf(<<Top.cls, Top.index>>), dst,
                             Top.cls, Top.index)
       IN /\ ar' = r.ar
          /\ dst' = r.obj
    /\ loadLog' = Append(loadLog, <<"member", Top.cls, Top.index>>)
    /\ stack' = [stack EXCEPT ![Len(stack)].pc = "next"]
    /\ UNCHANGED <<singleton, phase, call, stream, src, outcome, saveLog, runs, threadVars>>

\* Mutant: load fills a temporary and assigns it to the object on success
\* only, so that a failed load leaves the object as it was handed in.
loadHelper_unwind_restore(o, before) == before

\* An exception of ar(ref) passing through loadHelper, loadParents and
\* cereal::load: none of them has a handler or a guard object, and the
\* members were set through references into the caller's object, so the
\* object stays as the transfers made so far have left it.
loadHelper_unwind(o, before) == o

\* loadHelper: ar(ref) throws, because the input is damaged or cut short at
\* this entry or cannot serve the read.  The stack unwinds, the archive is
\* destroyed on the way, and the from_* call ends.
loadHelper_member_throws ==
    /\ At("loading", "loadHelper", "member")
    /\ loadLog' = Append(loadLog, <<"throw", Top.cls, Top.index>>)
    /\ stack' = <<>>
    /\ ar' = ArchiveScopeExit(ar)
    /\ phase' = "done"
    /\ outcome' = [outcome EXCEPT !.load = from_exit(call.backend, TRUE)]
    /\ dst' = loadHelper_unwind(dst, FreshObject(dst.type))
    /\ UNCHANGED <<singleton, call, stream, src, saveLog, runs, threadVars>>

\* loadHelper: recurse to the next index, or return after the last member.
loadHelper_next ==
    /\ At("loading", "loadHelper", "next")
    /\ stack' = IF loadHelper_more(Top.cls, Top.index)
                THEN Calling("ret", Frame("loadHelper", Top.cls, NextIndex(Top.index), "enter"))
                ELSE Popped
    /\ UNCHANGED <<singleton, phase, call, ar, stream, src, dst, outcome, saveLog,
                   loadLog, runs, threadVars>>

\* loadParents: look up both descriptors and load the index-th base from its
\* member 0.
loadParents_enter ==
    /\ At("loading", "loadParents", "enter")
    /\ singleton' = Instance(Instance(singleton, Top.cls), ParentType(Top.cls, Top.index))
    /\ loadLog' = Append(loadLog, <<"base", Top.cls, Top.index>>)
    /\ stack' = Calling("next", Frame("loadHelper", ParentType(Top.cls, Top.index), 0, "enter"))
    /\ UNCHANGED <<phase, call, ar, stream, src, dst, outcome, saveLog, runs, threadVars>>

\* loadParents: recurse to the next base, or return after the last.
loadParents_next ==
    /\ At("loading", "loadParents", "next")
    /\ stack' = IF Top.index + 1 < baseCount(Top.cls)
                THEN Calling("ret", Frame("loadParents", Top.cls, NextIndex(Top.index), "enter"))
                ELSE Popped
    /\ UNCHANGED <<singleton, phase, call, ar, stream, src, dst, outcome, saveLog,
                   loadLog, runs, threadVars>>

\* ar(obj) is over: the archive goes out of scope and the call returns.
EndLoad ==
    /\ phase = "loading"
    /\ stack = <<>>
    /\ ar' = ArchiveScopeExit(ar)
    /\ phase' = "done"
    /\ outcome' = [outcome EXCEPT !.load = from_exit(call.backend, FALSE)]
    /\ UNCHANGED <<singleton, call, stack, stream, src, dst, saveLog, loadLog, runs,
                   threadVars>>

\* The caller drops the objects and the stream; the descriptors stay.
Reset ==
    /\ phase = "done"
    /\ phase' = "idle"
    /\ call' = NoCall
    /\ stream' = <<>>
    /\ src' = NoObject
    /\ dst' = NoObject
    /\ outcome' = NoOutcome
    /\ saveLog' = <<>>
    /\ loadLog' = <<>>
    /\ UNCHANGED <<singleton, stack, ar, runs, threadVars>>

Next ==
    \/ \E T \in LookedUpTypes : Lookup(T)
    \/ \E T \in TraversedTypes : \E D \in RuntimeTypes(T) : \E o \in Objects(D) :
          \E b \in Backends : \E f \in Forms(b) : BeginSave(T, o, b, f)
    \/ cereal_save
    \/ saveHelper_enter
    \/ saveHelper_member
    \/ saveHelper_next
    \/ saveParents_enter
    \/ saveParents_next
    \/ Return
    \/ EndSave
    \/ BeginLoad
    \/ BeginLoadThrows
    \/ \E T \in HandCodedTypes : \E doc \in HandDocs(T) :
          \E b \in Backends : HandCoded(T, doc, b)
    \/ cereal_load
    \/ loadHelper_enter
    \/ loadHelper_member
    \/ loadHelper_member_throws
    \/ loadHelper_next
    \/ loadParents_enter
    \/ loadParents_next
    \/ EndLoad
    \/ Reset

Spec == Init /\ [][Next]_vars

\* A step of a call that is inside its body.  The engine is synchronous: a
\* call that has begun runs its next statement, nothing suspends it.
CallStep ==
    \/ cereal_save
    \/ saveHelper_enter
    \/ saveHelper_member
    \/ saveHelper_next
    \/ saveParents_enter
    \/ saveParents_next
    \/ Return
    \/ EndSave
    \/ cereal_load
    \/ loadHelper_enter
    \/ loadHelper_member
    \/ loadHelper_member_throws
    \/ loadHelper_next
    \/ loadParents_enter
    \/ loadParents_next
    \/ EndLoad

SpecLive == Spec /\ WF_vars(CallStep)


(***************************************************************************)
(* Concurrent first use: several threads call instance() of a type that    *)
(* has no descriptor yet.  The constructor's loop runs one push_back at a  *)
(* time, so a descriptor under construction is visible as a partial list.  *)
(***************************************************************************)
ThreadTypes == {"Pleh", "Parent", "Twin"}

seqVars == <<phase, call, stack, ar, stream, src, dst, outcome, saveLog, loadLog, runs>>

\* A thread starts its first save or load of T and reaches instance().
T_call(t, T) ==
    /\ tpc[t] = "off"
    /\ tpc' = [tpc EXCEPT ![t] = "guard"]
    /\ tcls' = [tcls EXCEPT ![t] = T]
    /\ UNCHANGED <<singleton, tseen, seqVars>>

\* The thread reaches the declaration of the static and finds it not yet
\* initialised: it takes the guard and enters the constructor.
T_construct(t) ==
    /\ tpc[t] = "guard"
    /\ StaticInit(singleton[tcls[t]].guard) = "construct"
    /\ singleton' = [singleton EXCEPT ![tcls[t]].guard = "busy",
                                      ![tcls[t]].names = <<>>,
                                      ![tcls[t]].builds = @ + 1,
                                      ![tcls[t]].uses = @ + 1]
    /\ tpc' = [tpc EXCEPT ![t] = "ctor"]
    /\ UNCHANGED <<tcls, tseen, seqVars>>

\* The thread reaches the declaration and passes it: instance() returns the
\* reference.  (A thread that has to wait takes no step.)
T_pass(t) ==
    /\ tpc[t] = "guard"
    /\ StaticInit(singleton[tcls[t]].guard) = "pass"
    /\ singleton' = [singleton EXCEPT ![tcls[t]].handed = @ \cup {singleton[tcls[t]].builds},
                                      ![tcls[t]].uses = @ + 1]
    /\ tpc' = [tpc EXCEPT ![t] = "ref"]
    /\ UNCHANGED <<tcls, tseen, seqVars>>

\* One round of the constructor's loop: _memberNamesStrings.push_back(name).
T_push(t) ==
    /\ tpc[t] = "ctor"
    /\ Len(singleton[tcls[t]].names) < Len(ConstructedNames(tcls[t]))
    /\ singleton' = [singleton EXCEPT ![tcls[t]].names =
                        Append(@, ConstructedNames(tcls[t])[Len(@) + 1])]
    /\ UNCHANGED <<tpc, tcls, tseen, seqVars>>

\* The loop is over: the constructor returns, the guard is released and
\* instance() returns the reference.
T_constructed(t) ==
    /\ tpc[t] = "ctor"
    /\ Len(singleton[tcls[t]].names) >= Len(ConstructedNames(tcls[t]))
    /\ singleton' = [singleton EXCEPT ![tcls[t]].guard = "done",
                                      ![tcls[t]].handed = @ \cup {singleton[tcls[t]].builds}]
    /\ tpc' = [tpc EXCEPT ![t] = "ref"]
    /\ UNCHANGED <<tcls, tseen, seqVars>>

\* The thread reads the names through the reference it got.
T_read(t) ==
    /\ tpc[t] = "ref"
    /\ tseen' = [tseen EXCEPT ![t] = getMemberNames(singleton, tcls[t])]
    /\ tpc' = [tpc EXCEPT ![t] = "read"]
    /\ UNCHANGED <<singleton, tcls, seqVars>>

NextConc ==
    \/ \E t \in Threads : \E T \in ThreadTypes : T_call(t, T)
    \/ \E t \in Threads : T_construct(t)
    \/ \E t \in Threads : T_pass(t)
    \/ \E t \in Threads : T_push(t)
    \/ \E t \in Threads : T_constructed(t)
    \/ \E t \in Threads : T_read(t)

SpecConc == Init /\ [][NextConc]_vars


(***************************************************************************)
(* Properties.                                                             *)
(***************************************************************************)
MemberEvents(log) == SelectSeq(log, LAMBDA e : e[1] = "member")
Failures(log) == SelectSeq(log, LAMBDA e : e[1] \in {"throw", "parse"})
IsPrefix(a, b) == Len(a) <= Len(b) /\ SubSeq(b, 1, Len(a)) = a
ItemNames(out) == [k \in 1..Len(SelectSeq(out, LAMBDA e : e.ev = "item")) |->
                      SelectSeq(out, LAMBDA e : e.ev = "item")[k].name]
\* An object of type T itself has been saved and loaded back.
RoundTripDone ==
    /\ phase = "done"
    /\ outcome.save = "returned"
    /\ outcome.load = "returned"
    /\ src.type = call.type

\* C1: round trip.  When an object has been saved through an output archive
\* and the output loaded into a fresh object of the same type through the
\* matching input archive, every direct and inherited member of the loaded
\* object equals that member of the saved one (shared members compared
\* through the pointer, and sharing the same targets), for each backend.
C1_RoundTrip ==
    RoundTripDone =>
        /\ dst.type = src.type
        /\ DOMAIN dst.fields = FieldKeys(call.type)
        /\ View(dst) = View(src)
        /\ Sharing(dst) = Sharing(src)

C1_Witness ==
    /\ RoundTripDone
    /\ call.type = "GrandChild"
    /\ call.backend = "binary"
    /\ src.fields[<<"Parent", 0>>] = 1
    /\ src.fields[<<"Child", 0>>] = 0
    /\ src.fields[<<"GrandChild", 0>>] = 1
    /\ dst.fields = src.fields

ChildOrder == <<<<"member", "Parent", 0>>, <<"member", "Child", 0>>>>

\* C2: base before derived.  For Child (base Parent with foo, own member
\* bar) save hands foo to the archive before bar, load reads foo before bar,
\* the text forms list foo before bar, and after the round trip both hold
\* their saved values.
C2_BaseBeforeDerived ==
    (call.type = "Child" /\ phase # "idle") =>
        /\ IsPrefix(MemberEvents(saveLog), ChildOrder)
        /\ IsPrefix(MemberEvents(loadLog), ChildOrder)
        /\ outcome.save = "returned" =>
              /\ MemberEvents(saveLog) = ChildOrder
              /\ IsText(call.backend) =>
                    ItemNames(StreamForLoad(call.form, stream, outcome.text))
                        = <<Id_foo, Id_bar>>
        /\ RoundTripDone =>
              /\ MemberEvents(loadLog) = ChildOrder
              /\ dst.fields[<<"Parent", 0>>] = src.fields[<<"Parent", 0>>]
              /\ dst.fields[<<"Child", 0>>] = src.fields[<<"Child", 0>>]

C2_Witness ==
    /\ RoundTripDone
    /\ call.type = "Child"
    /\ call.backend = "json"
    /\ src.fields[<<"Parent", 0>>] = 0
    /\ src.fields[<<"Child", 0>>] = 1
    /\ dst.fields[<<"Parent", 0>>] = 0
    /\ dst.fields[<<"Child", 0>>] = 1

\* C3: shared-reference identity.  Two members that held a shared_ptr to one
\* target refer, after the round trip, to one target again (and not to two
\* copies).
C3_SharedIdentity ==
    RoundTripDone =>
        \A k1 \in PtrKeys(src) : \A k2 \in PtrKeys(src) :
            (src.fields[k1] # 0 /\ src.fields[k1] = src.fields[k2]) =>
                (dst.fields[k1] # 0 /\ dst.fields[k1] = dst.fields[k2])

C3_Witness ==
    /\ RoundTripDone
    /\ call.type = "Twin"
    /\ src.fields[<<"Twin", 0>>] = 2
    /\ src.fields[<<"Twin", 1>>] = 2
    /\ dst.fields[<<"Twin", 0>>] # 0
    /\ dst.fields[<<"Twin", 0>>] = dst.fields[<<"Twin", 1>>]

\* C4: descriptor caching.  The first instance() of a type constructs its
\* descriptor; every later one, over save and load and for every member
\* visited, returns that same object: the constructor runs at most once per
\* type.
C4_BuiltOnce ==
    \A T \in TypeIds :
        /\ singleton[T].builds <= 1
        /\ singleton[T].handed \subseteq {1}
        /\ singleton[T].uses > 0 =>
              (singleton[T].builds = 1 /\ singleton[T].guard = "done")

C4_Witness ==
    /\ phase = "loading"
    /\ singleton["Parent"].uses >= 4
    /\ singleton["Parent"].builds = 1
    /\ singleton["Parent"].handed = {1}

Identifiers(T) ==
    LET members == nonstatic_data_members_of(T)
    IN [k \in 1..Len(members) |-> members[k].name]

\* C5: at-most-once construction under concurrency.  When several threads
\* make their first use of a type at the same time, one descriptor is
\* constructed, every thread that got the reference sees it complete, and no
\* thread reads a partial name list.
C5_OnceUnderConcurrency ==
    /\ \A T \in TypeIds :
          singleton[T].builds <= 1 /\ singleton[T].handed \subseteq {1}
    /\ \A t \in Threads :
          /\ tpc[t] \in {"ref", "read"} =>
                /\ singleton[tcls[t]].guard = "done"
                /\ singleton[tcls[t]].names = Identifiers(tcls[t])
          /\ tpc[t] = "read" => tseen[t] = Identifiers(tcls[t])

\* One thread is inside the constructor with half of the names pushed while
\* another has reached instance() of the same type.
C5_Witness ==
    /\ tcls[1] = "Pleh"
    /\ tcls[2] = "Pleh"
    /\ tpc[1] = "ctor"
    /\ Len(singleton["Pleh"].names) = 1
    /\ tpc[2] = "guard"

\* C6: descriptor stability.  Once a type's descriptor exists no step
\* changes it: its name sequence, and with it fieldCount, stay what they
\* were.
C6_DescriptorStable ==
    [][\A T \in TypeIds :
          singleton[T].guard = "done" =>
              /\ singleton'[T].guard = "done"
              /\ singleton'[T].names = singleton[T].names
              /\ Len(singleton'[T].names) = memberCount(T)]_vars

C6_Witness ==
    /\ phase = "loading"
    /\ singleton["Child"].guard = "done"
    /\ singleton["Child"].uses >= 5
    /\ singleton["Child"].names = <<Id_bar>>

\* C7: descriptor contents.  The name list of a type has exactly fieldCount
\* entries and entry i is the identifier of the i-th direct member, in
\* declaration order; inherited members are neither counted nor listed.
C7_DescriptorContents ==
    /\ \A T \in TypeIds :
          singleton[T].guard = "done" =>
              /\ Len(singleton[T].names) = memberCount(T)
              /\ singleton[T].names = Identifiers(T)
    /\ singleton["Pleh"].guard = "done" => singleton["Pleh"].names = <<Id_foo, Id_bar>>
    /\ singleton["Child"].guard = "done" => singleton["Child"].names = <<Id_bar>>

C7_Witness ==
    /\ singleton["Pleh"].guard = "done"
    /\ Len(singleton["Pleh"].names) = 2
    /\ singleton["Pleh"].names[1] = Id_foo
    /\ singleton["Pleh"].names[2] = Id_bar

OverLimit(T) ==
    LET members == nonstatic_data_members_of(T)
    IN \/ Len(members) >= MAX_CLASS_MEMBERS
       \/ \E k \in 1..Len(members) : Len(members[k].name) >= MAX_IDENTIFIER_LENGTH

\* C8: bound enforcement.  For a type with 256 or more direct members, or
\* with a member name of 256 or more characters, the construction of the
\* descriptor is rejected: no descriptor of such a type is ever constructed
\* or handed out, and the call that needs it ends rejected.
C8_BoundEnforced ==
    /\ \A T \in TypeIds : OverLimit(T) => singleton[T] = NoSingleton
    /\ OverLimit(call.type) =>
          /\ phase \in {"idle", "done"}
          /\ phase = "done" => "rejected" \in {outcome.save, outcome.load}

C8_Witness ==
    /\ phase = "done"
    /\ call.type \in {"Big256", "Long256"}
    /\ outcome.load = "rejected"
    /\ singleton[call.type] = NoSingleton

Traversing == phase \in {"saving", "saved", "loading"}

\* C9 as stated: a traversal of a type with no direct member does not fail.
C9_Original ==
    (phase = "done" /\ memberCount(call.type) = 0 /\ outcome.load # "looked up")
        => outcome.save # "rejected"

\* C9, amended: a type with no direct member has a well-formed descriptor
\* (an empty name list), but save and load of it are rejected by the
\* helper's static_assert, whether or not it has a base with members:
\* nothing is traversed and nothing is transferred.
C9_EmptyTypeRejected ==
    /\ memberCount(call.type) = 0 => ~Traversing
    /\ (phase = "done" /\ memberCount(call.type) = 0) =>
          /\ outcome.load \in {"looked up", "none"}
          /\ outcome.load = "none" => outcome.save = "rejected"
          /\ stream = <<>>
          /\ saveLog = <<>>
          /\ loadLog = <<>>
    /\ \A T \in TypeIds :
          (memberCount(T) = 0 /\ singleton[T].guard = "done") => singleton[T].names = <<>>

C9_Witness ==
    /\ phase = "done"
    /\ call.type = "Heir"
    /\ outcome.save = "rejected"
    /\ stream = <<>>

\* C10: error propagation.  When the archive reports malformed or truncated
\* input during from_json, from_xml or from_input_archive, the call ends
\* with that error; a call that returns normally has loaded every member.
C10_ErrorPropagates ==
    phase = "done" =>
        /\ Failures(loadLog) # <<>> => outcome.load = "threw"
        /\ outcome.load = "returned" =>
              /\ Failures(loadLog) = <<>>
              /\ Len(MemberEvents(loadLog)) = Cardinality(FieldKeys(call.type))

C10_Witness ==
    /\ phase = "done"
    /\ call.type = "Pleh"
    /\ call.backend = "json"
    /\ outcome.save = "returned"
    /\ loadLog = <<<<"member", "Pleh", 0>>, <<"throw", "Pleh", 1>>>>
    /\ outcome.load = "threw"
    /\ dst.fields[<<"Pleh", 0>>] = src.fields[<<"Pleh", 0>>]

\* C11: archive teardown.  A call constructs its archive once, on entry; the
\* archive lives exactly while the call is inside its body, and is gone when
\* the call has returned or has been left by an exception of the backend.
C11_ArchiveTeardown ==
    /\ [](/\ ar.live <=> phase \in {"saving", "loading"}
          /\ phase \in {"idle", "saved", "done"} => ar = NoArchive
          /\ phase = "saving" => ar.dir = "save"
          /\ phase = "loading" => ar.dir = "load")
    /\ [][((~ar.live /\ ar'.live) =>
               (phase \in {"idle", "saved"} /\ phase' \in {"saving", "loading"}))
           /\ ((ar.live /\ ar'.live) => (phase' = phase /\ ar'.dir = ar.dir))]_vars

\* An xml load left by an exception at the second member: the archive is gone.
C11_Witness ==
    /\ phase = "done"
    /\ call.backend = "xml"
    /\ outcome.save = "returned"
    /\ outcome.load = "threw"
    /\ loadLog = <<<<"member", "Pleh", 0>>, <<"throw", "Pleh", 1>>>>
    /\ ar = NoArchive

\* What an output archive writes when it is handed the members keys of o,
\* each under its identifier.
RECURSIVE WriteAll(_, _, _, _, _)
WriteAll(keys, a, out, o, backend) ==
    IF keys = <<>> THEN out
    ELSE LET k == Head(keys)
             r == SaveTransfer(a, backend, identifier_of(k[1], k[2]), KindOf(k),
                               member_ref_const(o, k[1], k[2]))
         IN WriteAll(Tail(keys), r.ar, Append(out, r.entry), o, backend)

\* The complete output of the stream form of save on an empty stream.
CompleteText(o, T, backend) ==
    IF IsText(backend)
    THEN <<Entry("start", Id_value0, "val", 0, 0, FALSE)>>
             \o WriteAll(Traversal(T), OutputArchive, <<>>, o, backend)
             \o <<Entry("end", <<>>, "val", 0, 0, FALSE)>>
    ELSE WriteAll(Traversal(T), OutputArchive, <<>>, o, backend)

\* The object an input archive over doc leaves when the members keys of o
\* are read from it in turn.
RECURSIVE ReadAll(_, _, _, _)
ReadAll(keys, a, doc, o) ==
    IF keys = <<>> THEN o
    ELSE LET k == Head(keys)
             r == LoadTransfer(a, doc, KindOf(k), o, k[1], k[2])
         IN ReadAll(Tail(keys), r.ar, doc, r.obj)

LoadedFrom(doc, T, backend, o) ==
    ReadAll(Traversal(T), [InputArchive EXCEPT !.pos = IF IsText(backend) THEN 2 ELSE 1],
            doc, o)

\* C12: string form equals stream form.  The string to_json(obj) / to_xml(obj)
\* returns is the complete text the stream form leaves in an empty stream,
\* closing of the root node included; from_json(obj, text) / from_xml(obj,
\* text) read a stream that holds exactly text and leave the object the
\* stream form leaves; so the round trip through a string restores the
\* members as the round trip through a stream does.
C12_StringEqualsStream ==
    /\ (outcome.save = "returned" /\ call.form = "stream") =>
          stream = CompleteText(src, call.type, call.backend)
    /\ (outcome.save = "returned" /\ call.form = "string") =>
          /\ outcome.text = CompleteText(src, call.type, call.backend)
          /\ phase = "saved" => stream = <<>>
          /\ phase \in {"loading", "done"} => stream = outcome.text
    /\ RoundTripDone =>
          /\ dst = LoadedFrom(StreamForLoad(call.form, stream, outcome.text),
                              call.type, call.backend, FreshObject(src.type))
          /\ call.form = "string" => (View(dst) = View(src) /\ Sharing(dst) = Sharing(src))

C12_Witness ==
    /\ RoundTripDone
    /\ call.form = "string"
    /\ call.backend = "json"
    /\ call.type = "Pleh"
    /\ Len(outcome.text) = 4
    /\ outcome.text[4].ev = "end"
    /\ src.fields[<<"Pleh", 0>>] = 1
    /\ dst.fields = src.fields

\* The document a save produced, wherever it is held.
Document == StreamForLoad(call.form, stream, outcome.text)

\* C13: flattened bases.  What save writes for a derived object is one
\* enclosing node whose children are the named entries of every base member
\* and every own member: no node is opened for a base, and the entries of
\* the bases come ahead of the type's own entries.
C13_FlattenedBases ==
    /\ (phase = "saving" /\ IsText(call.backend)) =>
          /\ stream[1].ev = "start"
          /\ \A k \in 2..Len(stream) : stream[k].ev = "item"
          /\ IsPrefix(ItemNames(stream), TraversalNames(call.type))
    /\ (outcome.save = "returned" /\ IsText(call.backend)) =>
          LET n == Len(Document)
              own == memberCount(call.type)
          IN /\ n = Len(Traversal(call.type)) + 2
             /\ Document[1].ev = "start"
             /\ Document[n].ev = "end"
             /\ \A k \in 2..(n - 1) : Document[k].ev = "item"
             /\ ItemNames(Document) = TraversalNames(call.type)
             /\ \A k \in 1..(n - 2) :
                    (Traversal(call.type)[k][1] = call.type) <=> (k > n - 2 - own)
    /\ (outcome.save = "returned" /\ ~IsText(call.backend)) =>
          /\ Len(stream) = Len(Traversal(call.type))
          /\ \A k \in 1..Len(stream) : stream[k].ev = "item"

C13_Witness ==
    /\ phase = "saved"
    /\ call.type = "GrandChild"
    /\ call.backend = "xml"
    /\ call.form = "stream"
    /\ Len(stream) = 5
    /\ ItemNames(stream) = <<Id_foo, Id_bar, Id_baz>>
    /\ stream[5].ev = "end"

MemberKeys(log) ==
    [k \in 1..Len(MemberEvents(log)) |->
        <<MemberEvents(log)[k][2], MemberEvents(log)[k][3]>>]

\* C14: static-type serialization.  Save and load of an object handed over
\* as a T& go by T: the members transferred are the members of T's shape
\* (T's bases and T's direct members), whatever more-derived type the object
\* really has; the members that type adds are neither written nor loaded.
C14_StaticType ==
    (phase # "idle" /\ src # NoObject) =>
        LET shape == FieldKeys(call.type)
        IN /\ \A k \in 1..Len(MemberKeys(saveLog)) : MemberKeys(saveLog)[k] \in shape
           /\ \A k \in 1..Len(MemberKeys(loadLog)) : MemberKeys(loadLog)[k] \in shape
           /\ \A f \in 1..Len(stack) : stack[f].cls \in Lineage(call.type)
           /\ outcome.save = "returned" =>
                 /\ MemberKeys(saveLog) = Traversal(call.type)
                 /\ Document = CompleteText(src, call.type, call.backend)
           /\ dst # NoObject =>
                 \A k \in DOMAIN dst.fields \ shape :
                     dst.fields[k] = FreshObject(dst.type).fields[k]
           /\ (phase = "done" /\ outcome.load = "returned") =>
                 /\ MemberKeys(loadLog) = Traversal(call.type)
                 /\ \A k \in shape : View(dst)[k] = View(src)[k]

\* A GrandChild saved and loaded through a Child&: foo and bar went over,
\* baz did not.
C14_Witness ==
    /\ phase = "done"
    /\ outcome.save = "returned"
    /\ outcome.load = "returned"
    /\ call.type = "Child"
    /\ src.type = "GrandChild"
    /\ src.fields[<<"GrandChild", 0>>] = 1
    /\ src.fields[<<"Child", 0>>] = 1
    /\ dst.fields[<<"Child", 0>>] = 1
    /\ dst.fields[<<"Parent", 0>>] = src.fields[<<"Parent", 0>>]
    /\ dst.fields[<<"GrandChild", 0>>] = -1
    /\ MemberKeys(saveLog) = <<<<"Parent", 0>>, <<"Child", 0>>>>

\* The members the provider lists for the type a call goes by, and o with
\* every other member blanked.
Exposed == FieldKeys(call.type)
Masked(o) ==
    [o EXCEPT !.fields = [k \in DOMAIN o.fields |->
                             IF k \in Exposed THEN o.fields[k] ELSE 0]]
Occurrences(seq, x) == Cardinality({k \in 1..Len(seq) : seq[k] = x})

Items(doc) == SelectSeq(doc, LAMBDA e : e.ev = "item")

\* What save has written so far, or the whole document once it has returned.
Written == IF phase = "saving" THEN stream ELSE Document

\* C16: name pairing on save.  The k-th entry save hands to the archive is
\* the k-th member visited: its value is the value of that member of the
\* object (for a shared_ptr, the target's value the first time the target
\* is met) and, where the archive keeps names, its name is the entry of the
\* declaring type's descriptor at the member's ordinal, which is the
\* member's identifier; no member goes out under the name of another.
C16_NamePairing ==
    (phase \in {"saving", "saved"} /\ src # NoObject) =>
        /\ Len(Items(Written)) = Len(MemberKeys(saveLog))
        /\ \A k \in 1..Len(Items(Written)) :
              LET e == Items(Written)[k]
                  key == MemberKeys(saveLog)[k]
              IN /\ e.kind = KindOf(key)
                 /\ IsText(call.backend) =>
                       /\ e.name = getMemberNames(singleton, key[1])[key[2] + 1]
                       /\ e.name = identifier_of(key[1], key[2])
                 /\ ~IsText(call.backend) => e.name = <<>>
                 /\ KindOf(key) = "val" => e.v = src.fields[key]
                 /\ KindOf(key) = "ptr" =>
                       /\ (e.id = 0) <=> (src.fields[key] = 0)
                       /\ e.fresh => e.v = src.heap[src.fields[key]]

C16_Witness ==
    /\ phase = "saved"
    /\ call.type = "Pleh"
    /\ call.backend = "json"
    /\ call.form = "stream"
    /\ src.fields[<<"Pleh", 0>>] = 0
    /\ src.fields[<<"Pleh", 1>>] = 1
    /\ stream[2].name = Id_foo
    /\ stream[2].v = 0
    /\ stream[3].name = Id_bar
    /\ stream[3].v = 1

\* C17: positional load.  The k-th member load visits gets the k-th entry
\* of the input, whatever name the entry bears: names and their order are
\* never compared with the descriptor, the name of the outer node is not
\* looked at, and wherever load stands at a member and the input can serve
\* a value of the member's kind the read goes through.
C17_PositionalLoad ==
    (phase \in {"loading", "done"} /\ dst # NoObject) =>
        LET keys == MemberKeys(loadLog)
            items == Items(stream)
        IN /\ IsPrefix(keys, Traversal(call.type))
           /\ Len(keys) <= Len(items)
           /\ \A k \in 1..Len(keys) :
                 /\ KindOf(keys[k]) = "val" => dst.fields[keys[k]] = items[k].v
                 /\ KindOf(keys[k]) = "ptr" => (dst.fields[keys[k]] = 0) <=> (items[k].id = 0)
           /\ (At("loading", "loadHelper", "member")
                  /\ Len(keys) < Len(items)
                  /\ items[Len(keys) + 1].kind = KindOf(<<Top.cls, Top.index>>)) =>
                 ENABLED loadHelper_member
           /\ \A k \in 1..Len(loadLog) : loadLog[k][1] \in {"member", "base", "throw", "parse"}

\* A Pleh loaded from a hand-written json text whose outer node is "config"
\* and whose entries are named bar, foo in this order: foo got the first
\* value and bar the second.
C17_Witness ==
    /\ phase = "done"
    /\ outcome.save = "none"
    /\ outcome.load = "returned"
    /\ call.type = "Pleh"
    /\ call.backend = "json"
    /\ stream[1].name = Id_config
    /\ ItemNames(stream) = <<Id_bar, Id_foo>>
    /\ stream[2].v = 0
    /\ stream[3].v = 1
    /\ dst.fields[<<"Pleh", 0>>] = 0
    /\ dst.fields[<<"Pleh", 1>>] = 1

\* The ordinals of C's direct members in the order a log has them.
OrdinalsOf(log, C) ==
    LET evs == SelectSeq(log, LAMBDA e : e[1] = "member" /\ e[2] = C)
    IN [k \in 1..Len(evs) |-> evs[k][3]]
UpTo(n) == [k \in 1..n |-> k - 1]

\* C18: ordinal discipline.  Within one save or load, the ordinals at which
\* the members of a traversed type are accessed are 0, 1, ..., n-1 in this
\* order, each once: at any moment a beginning of that sequence, and all of
\* it when the call has returned; no helper ever stands at an ordinal that
\* is not below the type's member count.
C18_OrdinalDiscipline ==
    /\ \A f \in 1..Len(stack) :
          stack[f].fn \in {"saveHelper", "loadHelper"} =>
              (stack[f].index >= 0 /\ stack[f].index < memberCount(stack[f].cls))
    /\ phase # "idle" =>
          \A C \in Lineage(call.type) :
              /\ IsPrefix(OrdinalsOf(saveLog, C), UpTo(memberCount(C)))
              /\ IsPrefix(OrdinalsOf(loadLog, C), UpTo(memberCount(C)))
              /\ outcome.save = "returned" => OrdinalsOf(saveLog, C) = UpTo(memberCount(C))
              /\ outcome.load = "returned" => OrdinalsOf(loadLog, C) = UpTo(memberCount(C))

C18_Witness ==
    /\ phase = "done"
    /\ call.type = "Twin"
    /\ outcome.save = "returned"
    /\ outcome.load = "returned"
    /\ OrdinalsOf(saveLog, "Twin") = <<0, 1>>
    /\ OrdinalsOf(loadLog, "Twin") = <<0, 1>>

\* What a complete traversal of T logs: for each direct base in index order
\* the start of its traversal and then all of that traversal, and after the
\* last base the direct members of T.
RECURSIVE ExpectedLog(_)
ExpectedLog(T) ==
    LET Bases[b \in 0..baseCount(T)] ==
            IF b = 0 THEN <<>>
            ELSE Bases[b - 1] \o <<<<"base", T, b - 1>>>> \o ExpectedLog(bases_of(T)[b])
    IN Bases[baseCount(T)] \o [i \in 1..memberCount(T) |-> <<"member", T, i - 1>>]

Steps(log) == SelectSeq(log, LAMBDA e : e[1] \in {"member", "base"})

\* C19: base traversal.  A save or load of a type with bases traverses each
\* direct base once, in index order, as the base's own type and with the
\* base's own bases first, and is through with all of them before the
\* type's member 0 is transferred; a traversal of bases is only ever begun
\* by the helper standing at ordinal 0, before its member.
C19_BaseTraversal ==
    /\ (phase # "idle" /\ call.type \in TraversedTypes) =>
          /\ IsPrefix(Steps(saveLog), ExpectedLog(call.type))
          /\ IsPrefix(Steps(loadLog), ExpectedLog(call.type))
          /\ outcome.save = "returned" => Steps(saveLog) = ExpectedLog(call.type)
          /\ outcome.load = "returned" => Steps(loadLog) = ExpectedLog(call.type)
    /\ \A f \in 1..Len(stack) :
          stack[f].fn \in {"saveParents", "loadParents"} =>
              /\ f > 1
              /\ stack[f].index < baseCount(stack[f].cls)
              /\ \E g \in 1..(f - 1) :
                    /\ stack[g].fn \in {"saveHelper", "loadHelper"}
                    /\ stack[g].cls = stack[f].cls
                    /\ stack[g].index = 0
                    /\ stack[g].pc = "member"
                    /\ \A h \in (g + 1)..f :
                          stack[h].fn = stack[f].fn /\ stack[h].cls = stack[f].cls
              /\ (f < Len(stack) /\ stack[f + 1].fn \in {"saveHelper", "loadHelper"}) =>
                    /\ stack[f + 1].cls = bases_of(stack[f].cls)[stack[f].index + 1]
                    /\ stack[f + 1].index = 0

\* A Multi (bases Parent and Other, members baz and quux) has been saved.
C19_Witness ==
    /\ phase = "saved"
    /\ call.type = "Multi"
    /\ saveLog = << <<"base", "Multi", 0>>, <<"member", "Parent", 0>>,
                    <<"base", "Multi", 1>>, <<"member", "Other", 0>>,
                    <<"member", "Multi", 0>>, <<"member", "Multi", 1>> >>

EmptyInLineage(T) == \E C \in Lineage(T) : memberCount(C) = 0

\* C20: internal consistency check.  A type without direct members is never
\* traversed, be it the type handed to save or load or a base that
\* saveParents / loadParents would reach: the helper's assertion rejects the
\* call, nothing is transferred and the target is left as it was; and no
\* helper ever runs at an ordinal that is not below its type's member count.
C20_ConsistencyCheck ==
    /\ \A f \in 1..Len(stack) :
          /\ stack[f].fn \in {"saveHelper", "loadHelper"} =>
                (memberCount(stack[f].cls) > 0 /\ stack[f].index < memberCount(stack[f].cls))
          /\ stack[f].fn \in {"saveParents", "loadParents"} =>
                memberCount(bases_of(stack[f].cls)[stack[f].index + 1]) > 0
    /\ (call.type \in TraversedTypes /\ EmptyInLineage(call.type)) =>
          /\ ~Traversing
          /\ stack = <<>>
          /\ ar = NoArchive
          /\ saveLog = <<>>
          /\ loadLog = <<>>
          /\ stream = <<>>
          /\ dst \in {NoObject, FreshObject(call.type)}
          /\ (phase = "done" /\ outcome.load # "looked up") =>
                "rejected" \in {outcome.save, outcome.load}

\* A load of an Orphan (one member, base Empty) from a hand-written text has
\* been rejected: loadParents would run the helper of Empty.
C20_Witness ==
    /\ phase = "done"
    /\ call.type = "Orphan"
    /\ memberCount("Orphan") > 0
    /\ outcome.save = "none"
    /\ outcome.load = "rejected"
    /\ dst = FreshObject("Orphan")
    /\ loadLog = <<>>


\* The number of type levels of T's hierarchy: T itself and the longest chain
\* of ancestors above it.
RECURSIVE Height(_)
Height(T) ==
    LET Up[b \in 0..baseCount(T)] ==
            IF b = 0 THEN 0
            ELSE IF Height(bases_of(T)[b]) > Up[b - 1]
                 THEN Height(bases_of(T)[b]) ELSE Up[b - 1]
    IN 1 + Up[baseCount(T)]

\* The types whose traversal is open: each one is entered through a helper
\* at ordinal 0, whose frame stays until the type's last member is done.
OpenLevels ==
    Cardinality({f \in 1..Len(stack) :
                    stack[f].fn \in {"saveHelper", "loadHelper"} /\ stack[f].index = 0})

\* The last thing the log has is the transfer of the root type's last member.
RootDone(log) ==
    /\ log # <<>>
    /\ log[Len(log)] = <<"member", call.type, memberCount(call.type) - 1>>

\* C21: termination.  A save or load call that has begun comes to its end
\* (whatever the input: a transfer either returns or throws); it makes at
\* most one transfer per member of the hierarchy; once the last direct
\* member of the root type has been transferred nothing is left but to
\* return, and a call that returns has just transferred that member; the
\* traversals open at one time never exceed the ancestor levels plus one.
C21_Termination ==
    /\ [](call.type \in TraversedTypes =>
             /\ OpenLevels <= Height(call.type)
             /\ Len(MemberEvents(saveLog)) <= Len(Traversal(call.type))
             /\ Len(MemberEvents(loadLog)) <= Len(Traversal(call.type))
             /\ (phase = "saving" /\ RootDone(saveLog)) =>
                   \A f \in 1..Len(stack) :
                       /\ stack[f].cls = call.type
                       /\ stack[f].pc \in {"next", "ret"}
                       /\ stack[f].pc = "next" =>
                             (f = Len(stack) /\ stack[f].index = memberCount(call.type) - 1)
             /\ (phase = "loading" /\ RootDone(loadLog)) =>
                   \A f \in 1..Len(stack) :
                       /\ stack[f].cls = call.type
                       /\ stack[f].pc \in {"next", "ret"}
                       /\ stack[f].pc = "next" =>
                             (f = Len(stack) /\ stack[f].index = memberCount(call.type) - 1)
             /\ outcome.save = "returned" => RootDone(saveLog)
             /\ outcome.load = "returned" => RootDone(loadLog))
    /\ (phase = "saving") ~> (phase = "saved")
    /\ (phase = "loading") ~> (phase = "done")

\* A GrandChild (two ancestor levels, three members in all) has been saved
\* and loaded back, and both calls have returned after three transfers.
C21_Witness ==
    /\ phase = "done"
    /\ call.type = "GrandChild"
    /\ Height("GrandChild") = 3
    /\ outcome.save = "returned"
    /\ outcome.load = "returned"
    /\ Len(MemberEvents(saveLog)) = 3
    /\ Len(MemberEvents(loadLog)) = 3
    /\ RootDone(loadLog)


\* The position an input archive starts at: a text archive has entered the
\* root node.
FirstPos == IF IsText(call.backend) THEN 2 ELSE 1

\* C22: save/load symmetry.  In a load that follows a save of the same type,
\* the bases entered and the <<declaring type, ordinal>> pairs transferred
\* are, step for step, those of the save; every load transfer takes one
\* entry and the k-th takes the k-th entry save wrote, so that the member
\* gets the value save took from it; a load that returns has made as many
\* transfers as the save and has used up every entry.
C22_SaveLoadSymmetry ==
    (phase \in {"loading", "done"} /\ outcome.save = "returned" /\ dst # NoObject) =>
        LET keys == MemberKeys(loadLog)
            items == Items(stream)
        IN /\ IsPrefix(Steps(loadLog), Steps(saveLog))
           /\ Len(items) = Len(MemberEvents(saveLog))
           /\ phase = "loading" => ar.pos = FirstPos + Len(keys)
           /\ \A k \in 1..Len(keys) :
                 /\ keys[k] = MemberKeys(saveLog)[k]
                 /\ items[k].kind = KindOf(keys[k])
                 /\ View(dst)[keys[k]] = View(src)[keys[k]]
           /\ outcome.load = "returned" =>
                 /\ Steps(loadLog) = Steps(saveLog)
                 /\ Len(keys) = Len(items)

\* A Multi (bases Parent and Other) has gone through the binary archive,
\* which keeps no names: load made the save's four transfers in its order.
C22_Witness ==
    /\ phase = "done"
    /\ call.type = "Multi"
    /\ call.backend = "binary"
    /\ outcome.save = "returned"
    /\ outcome.load = "returned"
    /\ MemberKeys(saveLog) = << <<"Parent", 0>>, <<"Other", 0>>, <<"Multi", 0>>, <<"Multi", 1>> >>
    /\ loadLog = saveLog
    /\ View(src)[<<"Parent", 0>>] # View(src)[<<"Other", 0>>]
    /\ View(dst) = View(src)


\* A direct look-up of a descriptor has ended.
LookupDone == phase = "done" /\ outcome.save = "none" /\ dst = NoObject

\* C23: exact field-count threshold.  The descriptor of every type with
\* fewer than MAX_CLASS_MEMBERS direct members, each with a name shorter than
\* MAX_IDENTIFIER_LENGTH, is constructed when it is looked up, a type with
\* exactly 255 members included, and its name list has one entry per member.
C23_FieldCountThreshold ==
    (LookupDone /\ ~OverLimit(call.type)) =>
        /\ outcome.load = "looked up"
        /\ singleton[call.type].guard = "done"
        /\ Len(singleton[call.type].names) = memberCount(call.type)


\* The member at which a load failed, if it failed at a member.
FailedAt ==
    {<<loadLog[k][2], loadLog[k][3]>> : k \in {j \in 1..Len(loadLog) : loadLog[j][1] = "throw"}}

\* C24: load writes in place, with no rollback.  When a load has been left
\* by an exception of the archive at the k-th member of the traversal, the
\* members before the k-th are exactly those transferred and each holds the
\* value of its entry of the input, not the value it had before the call;
\* the members after the k-th hold what they held before the call.
C24_NoRollback ==
    (phase = "done" /\ outcome.load = "threw") =>
        LET keys == MemberKeys(loadLog)
            items == Items(stream)
            before == FreshObject(dst.type)
        IN /\ IsPrefix(keys, Traversal(call.type))
           /\ Len(keys) < Len(Traversal(call.type))
           /\ FailedAt \subseteq {Traversal(call.type)[Len(keys) + 1]}
           /\ \A k \in 1..Len(keys) :
                 /\ KindOf(keys[k]) = "val" =>
                       /\ dst.fields[keys[k]] = items[k].v
                       /\ dst.fields[keys[k]] # before.fields[keys[k]]
                 /\ KindOf(keys[k]) = "ptr" =>
                       /\ (dst.fields[keys[k]] = 0) <=> (items[k].id = 0)
                       /\ items[k].fresh => View(dst)[keys[k]] = items[k].v
           /\ \A k \in (Len(keys) + 2)..Len(Traversal(call.type)) :
                 dst.fields[Traversal(call.type)[k]] = before.fields[Traversal(call.type)[k]]
           /\ \A key \in FieldKeys(dst.type) \ FieldKeys(call.type) :
                 dst.fields[key] = before.fields[key]

\* A load of a GrandChild from json has failed at the second member of the
\* traversal (bar of Child): foo of Parent holds the value read, baz of
\* GrandChild is as before the call.
C24_Witness ==
    /\ phase = "done"
    /\ call.type = "GrandChild"
    /\ call.backend = "json"
    /\ outcome.save = "returned"
    /\ outcome.load = "threw"
    /\ MemberKeys(loadLog) = << <<"Parent", 0>> >>
    /\ FailedAt = {<<"Child", 0>>}
    /\ dst.fields[<<"Parent", 0>>] = src.fields[<<"Parent", 0>>]
    /\ dst.fields[<<"Parent", 0>>] = 1
    /\ dst.fields[<<"GrandChild", 0>>] = -1

====
